---- MODULE Spec2Model ----
(***************************************************************************)
(* Model of the hybrid RAG + SQL agent workflow (agent/graph_hybrid.py):   *)
(* one request threaded through the LangGraph nodes router, retriever,     *)
(* planner, nl_sql, executor, synthesizer and repair.  Every action is one *)
(* node together with the conditional edge evaluated after it.  The        *)
(* external capabilities (classifier, retriever, SQL generator, SQL        *)
(* executor, synthesizer LM) are inputs drawn from small sets.             *)
(***************************************************************************)
EXTENDS Integers, Sequences, FiniteSets, TLC

VARIABLES
    pc,               \* node to run next: a graph node, "END", "returned", "raised"
    prev,             \* node that ran last ("start" before the first node)
    format_hint,      \* AgentState.format_hint (request input)
    query_type,       \* AgentState.query_type
    retrieved_chunks, \* AgentState.retrieved_chunks: references to chunks of the index
    context,          \* AgentState.context, as a sequence of text segments
    sql_query,        \* AgentState.sql_query
    sql_results,      \* AgentState.sql_results
    final_answer,     \* AgentState.final_answer
    explanation,      \* AgentState.explanation
    citations,        \* AgentState.citations
    confidence,       \* AgentState.confidence (a float)
    repair_count,     \* AgentState.repair_count
    repair_type,      \* AgentState.repair_type
    error,            \* AgentState.error
    db_tables_used,   \* AgentState.db_tables_used
    trace,            \* AgentState.trace (the messages, without their timestamps)
    calls,            \* number of calls made to each external capability
    raisedAt,         \* node whose exception left graph.invoke, or "none"
    trace_file,       \* lines of the request's trace file, or NotWritten
    result,           \* record returned by process_question, or NoResult
    chunk_score,      \* Chunk.score of every chunk of the retriever's index
    answer_str,       \* the answer text handed to _format_answer
    questions,        \* the ids of the questions of the batch file, in order
    q_index,          \* position in questions of the question main() is at
    results,          \* the list main() collects its records in
    output            \* records written to the output file, or NotWritten

\* what a request running through the graph does not touch
outside == << answer_str, questions, q_index, results, output >>

vars == << pc, prev, format_hint, query_type, retrieved_chunks, context,
           sql_query, sql_results, final_answer, explanation, citations,
           confidence, repair_count, repair_type, error, db_tables_used,
           trace, calls, raisedAt, trace_file, result, chunk_score, outside >>

-----------------------------------------------------------------------------
(* Bounds of the model *)

\* number of chunks the loaded document index holds
NumChunks == 2

\* the call counters saturate here (they stay far below it in the code as written)
CallCap == 8

\* largest number of rows of an execution result handed to the answer coercion
MaxRows == 11

\* largest number of questions in a batch file
MaxBatch == 3

-----------------------------------------------------------------------------
(* Program constants *)

\* a repair budget of three
MaxRepairsOneMore == 2 + 1

\* the repair budget the routing functions compare repair_count with
MaxRepairs == 2
TopK == 5
ContextCap == 500
QueryCut == 200
\* rows[:10] and formatted_rows[:3] of the list extraction
RowCap == 10
TopCap == 3

-----------------------------------------------------------------------------
(* Generic helpers *)

Min(a, b) == IF a < b THEN a ELSE b
Max(a, b) == IF a > b THEN a ELSE b

Range(s) == { s[i] : i \in 1..Len(s) }

RECURSIVE SetToSeq(_)
\* list(set(...)): some enumeration of the set, each element once
SetToSeq(S) ==
    IF S = {} THEN << >>
    ELSE LET x == CHOOSE y \in S : TRUE IN << x >> \o SetToSeq(S \ {x})

NoDuplicates(s) == \A i, j \in 1..Len(s) : i # j => s[i] # s[j]

Take(s, n) == SubSeq(s, 1, Min(n, Len(s)))

RECURSIVE SumLen(_)
SumLen(segs) == IF segs = << >> THEN 0 ELSE Head(segs).len + SumLen(Tail(segs))

-----------------------------------------------------------------------------
(* Python floats (IEEE 754 binary64), for the values a confidence goes through *)

\* A float x >= 0 is the pair << hi, lo >> with x = (hi * Limb + lo) * 2^-57 and
\* 0 <= lo < Limb.  Every binary64 value in [2^-5, 4) is such a pair, and so is
\* every multiple of 2^-57 below 2^-4; the operations round their exact result
\* to the nearest binary64 value, ties to even, as the hardware does.  The
\* operations are functions, so that an operand is a value when they use it.
Limb == 2^28
Float == Nat \X Nat

FZero  == << 0, 0 >>                       \* 0.0
FTenth == << 53687091, 53687092 >>         \* 0.1
FFifth == << 107374182, 107374184 >>       \* 0.2
FHalf  == << 268435456, 0 >>               \* 0.5
FOne   == << 536870912, 0 >>               \* 1.0

\* carries of the low limb moved into the high limb
FNorm(hi, lo) ==
    IF lo < 0 THEN << hi - 1, lo + Limb >>
    ELSE << hi + (lo \div Limb), lo % Limb >>

FLess(a, b) == a[1] < b[1] \/ (a[1] = b[1] /\ a[2] < b[2])
FLeq(a, b) == ~FLess(b, a)
FMin(a, b) == IF FLess(b, a) THEN b ELSE a
FMax(a, b) == IF FLess(a, b) THEN b ELSE a

\* distance between neighbouring binary64 values at x, in units of 2^-57
FUlp(x) ==
    IF x[1] >= 4 * Limb THEN 64
    ELSE IF x[1] >= 2 * Limb THEN 32
    ELSE IF x[1] >= Limb THEN 16
    ELSE IF x[1] >= Limb \div 2 THEN 8
    ELSE IF x[1] >= Limb \div 4 THEN 4
    ELSE IF x[1] >= Limb \div 8 THEN 2
    ELSE 1

\* the binary64 value nearest to x + f * 2^-57, where tail says what the fraction
\* 0 <= f < 1 is: "zero", "below" a half, "half" or "above" a half
FRound == [ x \in Float, tail \in { "zero", "below", "half", "above" } |->
    LET u == FUlp(x)
        low == x[2] % u
        down == << x[1], x[2] - low >>
        up == FNorm(x[1], x[2] - low + u)
        even == ((x[2] - low) \div u) % 2 = 0
        side == IF u = 1 THEN tail
                ELSE IF low < u \div 2 THEN (IF low = 0 /\ tail = "zero" THEN "zero"
                                             ELSE "below")
                ELSE IF low > u \div 2 THEN "above"
                ELSE IF tail = "zero" THEN "half" ELSE "above"
    IN CASE side \in { "zero", "below" } -> down
         [] side = "above" -> up
         [] OTHER -> IF even THEN down ELSE up ]

\* a + b
FAdd == [ a \in Float, b \in Float |->
    FRound[FNorm(a[1] + b[1], a[2] + b[2]), "zero"] ]

\* a - b, for a >= b
FSub == [ a \in Float, b \in Float |->
    FRound[FNorm(a[1] - b[1], a[2] - b[2]), "zero"] ]

\* k * a, for an int 0 <= k <= 7
FTimesInt == [ k \in 0..7, a \in Float |->
    FRound[<< k * a[1] + ((k * a[2]) \div Limb), (k * a[2]) % Limb >>, "zero"] ]

\* a / n, for an int 1 <= n <= 7
FDivInt == [ a \in Float, n \in 1..7 |->
    LET t == (a[1] % n) * Limb + a[2]
        r == t % n
    IN FRound[<< a[1] \div n, t \div n >>,
              IF r = 0 THEN "zero"
              ELSE IF 2 * r < n THEN "below"
              ELSE IF 2 * r = n THEN "half" ELSE "above"] ]

\* a * 0.2: the float 0.2 is (2^55 + 2) / (5 * 2^55), so the exact product is
\* (a + a / 2^54) / 5
FTimesFifth == [ a \in Float |->
    LET whole == a[1] \div (Limb \div 4)            \* floor(a / 2^54), in units
        part == << a[1] % (Limb \div 4), a[2] >>    \* the rest of a / 2^54, over 2^54
        partSide == IF part = << 0, 0 >> THEN "zero"
                    ELSE IF part[1] < Limb \div 8 THEN "below"
                    ELSE IF part = << Limb \div 8, 0 >> THEN "half"
                    ELSE "above"
        s == FNorm(a[1], a[2] + whole)
        t == (s[1] % 5) * Limb + s[2]
        r == t % 5
    IN FRound[<< s[1] \div 5, t \div 5 >>,
              IF r = 0 /\ partSide = "zero" THEN "zero"
              ELSE IF r <= 1 THEN "below"
              ELSE IF r >= 3 THEN "above"
              ELSE IF partSide \in { "zero", "below" } THEN "below"
              ELSE partSide] ]

-----------------------------------------------------------------------------
(* Request inputs *)

HintInt   == "int"
HintFloat == "float"
HintList  == "list[{product:str, revenue:float}]"
HintDict  == "{category:str, quantity:int}"
HintStr   == "str"
HintListTop3 == "list[{product:str, revenue:float}] top 3"

FormatHints == { HintInt, HintFloat, HintList, HintDict, HintStr }

\* format_hint.startswith("list[") and format_hint.startswith("{")
IsListHint(h) == h \in { HintList, HintListTop3 }
IsDictHint(h) == h \in { HintDict }
\* "top 3" in format_hint.lower()
HasTop3(h) == h \in { HintListTop3 }

-----------------------------------------------------------------------------
(* Values of the state fields *)

None == "None"

\* a typed answer: t is the Python type of the value, n the integer value, the
\* number of list elements or the number of dict keys
Answer(t, n) == [ t |-> t, n |-> n ]
NoAnswer == Answer(None, 0)

\* sql_results == {} (the initial state) and populated results
EmptyResults == [ set |-> FALSE, success |-> FALSE, rows |-> << >>,
                  row_count |-> 0, error |-> None ]
\* a result record that carries no error text
ResultsNoError(ok, rows, err) == [ set |-> TRUE, success |-> ok, rows |-> rows,
                                   row_count |-> Len(rows), error |-> None ]
Results(ok, rows, err) == [ set |-> TRUE, success |-> ok, rows |-> rows,
                            row_count |-> Len(rows), error |-> err ]

\* a result cell: column name, and a value that float() converts (num) or not
Cell(col, num, v) == [ col |-> col, num |-> num, v |-> v ]

\* a generated query: its length, the names after FROM and JOIN in order of
\* re.findall (all FROM matches, then all JOIN matches), and what the pre-flight
\* patterns look for
Query(text, len, tables, badBetween, cCategory, categoriesC, words, sumBetween) ==
    [ text |-> text, len |-> len, tables |-> tables, badBetween |-> badBetween,
      cCategory |-> cCategory, categoriesC |-> categoriesC, words |-> words,
      sumBetween |-> sumBetween ]
\* sql_query == ""
NoQuery == Query("", 0, << >>, FALSE, FALSE, FALSE, {}, FALSE)

\* a piece of the context text: what it is, its length, whether it lost
\* characters to the truncation, and for a repair note its hint lines
Seg(tag, len) == [ tag |-> tag, len |-> len, cut |-> FALSE, hints |-> << >> ]

\* no trace file exists for the request
NotWritten == << "<no trace file>" >>
NoResult == [ returned |-> FALSE, final_answer |-> NoAnswer, sql |-> NoQuery,
              confidence |-> FZero, explanation |-> "", citations |-> << >> ]

Capabilities == { "classifier", "retriever", "generator", "executor", "synthesizer" }

\* one more call of capability c
Called(c) == [ calls EXCEPT ![c] = Min(@ + 1, CallCap) ]

-----------------------------------------------------------------------------
(* Outputs of the external capabilities *)

\* text the classifier LM produced, by the substrings Router.forward looks for
ClassifierText(rag, doc, sql, database, db) ==
    [ rag |-> rag, doc |-> doc, sql |-> sql, database |-> database, db |-> db ]
ClassifierOutputs ==
    { ClassifierText(TRUE, FALSE, FALSE, FALSE, FALSE),     \* "rag"
      ClassifierText(FALSE, FALSE, TRUE, FALSE, FALSE),     \* "SQL"
      ClassifierText(FALSE, FALSE, FALSE, FALSE, FALSE),    \* "hybrid"
      ClassifierText(FALSE, TRUE, FALSE, TRUE, TRUE) }      \* "documents and database"

\* the chunks of the loaded index: chunk_id and the length of "[chunk_id]: content"
ChunkIds == << "kpi_definitions::chunk0", "marketing_calendar::chunk0",
               "product_policy::chunk0", "catalog::chunk0" >>
ChunkLens == << 320, 260, 180, 90 >>
\* whether the content holds ISO dates / a KPI keyword / a category name
ChunkDates == << FALSE, TRUE, FALSE, FALSE >>
ChunkKpi == << TRUE, FALSE, FALSE, FALSE >>
ChunkCategories == << FALSE, TRUE, FALSE, TRUE >>
\* cosine similarities of a question with a chunk
ScoreValues == { FZero, FHalf, FOne }

QTotal == Query("SELECT COUNT(*) AS total FROM orders", 35,
                << "orders" >>, FALSE, FALSE, FALSE, {}, FALSE)
QJoin ==  Query("SELECT .. FROM orders o JOIN order_items od .. WHERE o.OrderID IN (SELECT OrderID FROM orders ..)",
                230, << "orders", "orders", "order_items" >>,
                FALSE, FALSE, FALSE, {}, FALSE)
QAlias == Query("SELECT c.CategoryName, SUM(..) FROM order_items od JOIN products p ..", 120,
                << "order_items", "products" >>, FALSE, TRUE, FALSE, {}, FALSE)
QKeyword == Query("SELECT .. FROM orders WHERE OrderDate BETWEDIR '2017-06-01' ..", 96,
                  << "orders" >>, FALSE, FALSE, FALSE, { "BETWEDIR" }, FALSE)
QStrft == Query("SELECT strftDirty('%Y', OrderDate) FROM orders", 46,
                << "orders" >>, FALSE, FALSE, FALSE, { "strftDirty" }, FALSE)
Queries == { QTotal, QJoin, QAlias, QKeyword, QStrft }

ErrNoColumn == "no such column: c.CategoryName"
ErrSyntax == "near \"FORM\": syntax error"

OneRow == << << Cell("total", TRUE, 42) >> >>
ExecOutcomes ==
    { Results(TRUE, OneRow, None),
      Results(TRUE, << >>, None),
      Results(FALSE, << >>, ErrNoColumn),
      Results(FALSE, << >>, ErrSyntax) }

\* the final_answer text of the synthesizer LM, by what _format_answer looks for:
\* blank (missing, empty or whitespace), the first run of digits, a [..] match
\* and an {..} match ("none", "bad" when json.loads fails on it, "ok" with n
\* elements or keys)
AnswerText(blank, hasNum, num, arr, obj, n) ==
    [ blank |-> blank, hasNum |-> hasNum, num |-> num, arr |-> arr, obj |-> obj,
      n |-> n ]
NoneText == AnswerText(TRUE, FALSE, 0, "none", "none", 0)
SynthAnswers ==
    { AnswerText(FALSE, TRUE, 42, "none", "none", 0),      \* "42"
      NoneText,                                             \* ""
      AnswerText(FALSE, FALSE, 0, "none", "none", 0),       \* "not available"
      AnswerText(FALSE, FALSE, 0, "none", "ok", 0),         \* "{}"
      AnswerText(FALSE, FALSE, 0, "bad", "none", 0) }       \* "[Chai; Tofu]"
\* the citations field of the synthesizer LM, split at commas and stripped
SynthCites == { << >>, << "Orders", "Orders" >> }
SynthOutputs == [ answer : SynthAnswers, cites : SynthCites ]

ExplDefault == "Answer generated from SQL results and document context."
ExplDirect == "Direct extraction from SQL results."
ExplLM == "<explanation of the LM>"

-----------------------------------------------------------------------------
(* Router.forward, DocumentRetriever.retrieve, Synthesizer.forward *)

\* a router that hands on a text it does not recognise as it is
NormalizeQueryTypeRaw(t) ==
    IF t.rag /\ ~t.doc THEN "rag"
    ELSE IF t.sql /\ ~t.database THEN "sql"
    ELSE IF t.doc \/ t.database \/ t.db THEN "documents and database"
    ELSE "hybrid"

\* Router.forward: the normalisation of the classifier text
NormalizeQueryType(t) ==
    IF t.rag \/ t.doc THEN "rag"
    ELSE IF t.sql \/ t.database \/ t.db THEN "sql"
    ELSE "hybrid"

\* a chunk of the index, as a request holds it: the Chunk object itself, whose
\* score is read from chunk_score
Chunk(i) == [ chunk_id |-> ChunkIds[i], len |-> ChunkLens[i], idx |-> i ]

\* float comparison of two similarities, as np.argsort orders them
SimLess(a, b) == FLess(a, b)

\* np.argsort(similarities)[::-1][:top_k]: descending similarity, k best
IsRanking(order, sim, k) ==
    /\ Len(order) = Min(k, NumChunks)
    /\ \A i \in 1..Len(order) : order[i] \in 1..NumChunks
    /\ \A i, j \in 1..Len(order) : i < j =>
          /\ order[i] # order[j]
          /\ \/ SimLess(sim[order[j]], sim[order[i]])
             \/ sim[order[i]] = sim[order[j]] /\ order[i] > order[j]
    /\ \A c \in 1..NumChunks : (\A i \in 1..Len(order) : order[i] # c) =>
          \A i \in 1..Len(order) :
              \/ SimLess(sim[c], sim[order[i]])
              \/ sim[order[i]] = sim[c] /\ order[i] > c

\* top_indices of DocumentRetriever.retrieve
TopIndices(sim, k) ==
    CHOOSE o \in UNION { [1..n -> 1..NumChunks] : n \in 0..NumChunks } :
        IsRanking(o, sim, k)

\* DocumentRetriever.retrieve, for the similarities sim of the question: the
\* chunks it returns
Retrieve(sim, k) ==
    LET order == TopIndices(sim, k)
    IN [ i \in 1..Len(order) |-> Chunk(order[i]) ]

\* DocumentRetriever.retrieve: the scores of the index after chunk.score = ...
\* was run on the chunks it returns
ScoresAfterRetrieve(scores, sim, k) ==
    [ c \in 1..NumChunks |->
        IF c \in Range(TopIndices(sim, k)) THEN sim[c] ELSE scores[c] ]

ChunkIdsOf(chunks) == [ i \in 1..Len(chunks) |-> chunks[i].chunk_id ]

\* Synthesizer.forward, the citations without the final list(set(..))
SynthCitationsRaw(tables, chunks, lmCites) ==
    tables \o ChunkIdsOf(chunks) \o lmCites

\* Synthesizer.forward, the citations it returns
SynthCitations(tables, chunks, lmCites) ==
    SetToSeq(Range(SynthCitationsRaw(tables, chunks, lmCites)))

\* Synthesizer.forward when the LM call returned lm
SynthForward(lm, tables, chunks) ==
    [ final_answer |-> lm.answer,
      explanation |-> IF lm.answer.blank THEN ExplDefault ELSE ExplLM,
      citations |-> SynthCitations(tables, chunks, lm.cites) ]

-----------------------------------------------------------------------------
(* Pure functions of HybridAgent *)

PreflightBetween == "Invalid date: use format 'YYYY-MM-DD' not text strings"
PreflightAlias == "Alias 'c' used for CategoryName but Categories not aliased as 'c'. Use 'cat' for Categories"
PreflightKeyword == "Invalid keyword - use standard SQL"
PreflightSum == "Invalid: Cannot SUM a BETWEEN expression. Use BETWEEN in WHERE clause only"

Hallucinations == { "BETWELOGOF", "BETWEDIR", "strftDirty", "BETWEWS" }

\* str.upper() on the words the model uses
Upper(w) == CASE w = "strftDirty" -> "STRFTDIRTY"
              [] w = "betwedir" -> "BETWEDIR"
              [] OTHER -> w

\* _validate_sql_preflight: << valid, error_msg >>
ValidateSqlPreflight(q) ==
    IF q.badBetween THEN << FALSE, PreflightBetween >>
    ELSE IF q.cCategory /\ ~q.categoriesC THEN << FALSE, PreflightAlias >>
    ELSE IF \E h \in Hallucinations : \E w \in q.words : Upper(w) = h
         THEN << FALSE, PreflightKeyword >>
    ELSE IF q.sumBetween THEN << FALSE, PreflightSum >>
    ELSE << TRUE, "" >>

\* the mapping of _extract_table_names, applied to table.lower()
NormalizeTable(t) ==
    CASE t \in { "orders", "Orders", "ORDERS" } -> "Orders"
      [] t \in { "order_items", "Order_Items" } -> "Order Details"
      [] t \in { "products", "Products" } -> "Products"
      [] t \in { "customers", "Customers" } -> "Customers"
      [] OTHER -> t

\* _extract_table_names
ExtractTableNames(q) == [ i \in 1..Len(q.tables) |-> NormalizeTable(q.tables[i]) ]

\* a table list that keeps only the tables of the query just run
TablesUsedLatest(used, q) == SetToSeq(Range(ExtractTableNames(q)))

\* state["db_tables_used"] after the executor ran q
TablesUsedAfter(used, q) == SetToSeq(Range(used \o ExtractTableNames(q)))

\* _validate_answer_format
ValidateAnswerFormat(answer, hint) ==
    IF answer.t = None THEN FALSE
    ELSE IF hint = HintInt THEN answer.t = "int"
    ELSE IF hint = HintFloat THEN answer.t \in { "int", "float" }
    ELSE IF IsListHint(hint) THEN answer.t = "list"
    ELSE IF IsDictHint(hint) THEN answer.t = "dict" /\ answer.n > 0
    ELSE TRUE

\* the field names between the braces of the format hint, in order
HintFields(hint) ==
    IF hint \in { HintList, HintListTop3 } THEN << "product", "revenue" >>
    ELSE IF hint = HintDict THEN << "category", "quantity" >>
    ELSE << >>

\* field_name.lower() in col_lower or col_lower in field_name.lower()
FieldMatches(field, col) ==
    << field, col >> \in { << "product", "ProductName" >>, << "revenue", "revenue" >>,
                           << "category", "CategoryName" >>, << "quantity", "quantity" >>,
                           << "quantity", "total_quantity" >> }

\* the first value of the row that float() converts, as << found, value >>
FirstNumeric(row) ==
    IF \E i \in 1..Len(row) : row[i].num
    THEN << TRUE, row[CHOOSE i \in 1..Len(row) :
                        row[i].num /\ \A j \in 1..(i - 1) : ~row[j].num].v >>
    ELSE << FALSE, 0 >>

\* the fields a row is projected on: for each column the first matching field
ProjectedFields(row, fields) ==
    { fields[k] : k \in { k \in 1..Len(fields) :
        \E i \in 1..Len(row) :
            /\ FieldMatches(fields[k], row[i].col)
            /\ \A m \in 1..(k - 1) : ~FieldMatches(fields[m], row[i].col) } }

\* number of keys of the record built for one row of a list answer (lines 541-552):
\* the whole row when the first column matches no field
ListRowKeys(row, fields) ==
    IF Len(row) = 0 THEN 0
    ELSE IF ProjectedFields(<< row[1] >>, fields) = {} THEN Len(row)
    ELSE Cardinality(ProjectedFields(row, fields))

\* number of keys of the record built for a dict answer (lines 556-578)
DictRowKeys(row, fields) ==
    IF ProjectedFields(row, fields) = {} THEN Len(row)
    ELSE Cardinality(ProjectedFields(row, fields))

\* a list extraction that ignores the "top 3" of the hint
TruncateNever(formatted_rows, hint) == formatted_rows

\* formatted_rows[:3] if "top 3" in format_hint.lower() else formatted_rows
Truncate(formatted_rows, hint) ==
    IF HasTop3(hint) THEN Take(formatted_rows, TopCap) ELSE formatted_rows

\* _extract_from_sql_results
ExtractFromSqlResults(res, hint) ==
    IF ~res.success \/ res.rows = << >> THEN NoAnswer
    ELSE IF hint = HintInt THEN Answer("int", FirstNumeric(res.rows[1])[2])
    ELSE IF hint = HintFloat THEN Answer("float", FirstNumeric(res.rows[1])[2])
    ELSE IF IsListHint(hint) THEN
        IF HintFields(hint) # << >>
        THEN Answer("list", Len(Truncate(Take(res.rows, RowCap), hint)))
        ELSE Answer("list", Len(Take(res.rows, RowCap)))
    ELSE IF IsDictHint(hint) THEN
        Answer("dict", DictRowKeys(res.rows[1], HintFields(hint)))
    ELSE NoAnswer

\* _format_answer
FormatAnswer(text, hint, res) ==
    IF text.blank THEN
        IF res.success /\ res.rows # << >> THEN ExtractFromSqlResults(res, hint)
        ELSE NoAnswer
    ELSE IF hint = HintInt THEN
        IF text.hasNum THEN Answer("int", text.num)
        ELSE IF res.success /\ res.rows # << >>
             THEN Answer("int", FirstNumeric(res.rows[1])[2])
             ELSE Answer("int", 0)
    ELSE IF hint = HintFloat THEN
        IF text.hasNum THEN Answer("float", text.num)
        ELSE IF res.success /\ res.rows # << >>
             THEN Answer("float", FirstNumeric(res.rows[1])[2])
             ELSE Answer("float", 0)
    ELSE IF IsListHint(hint) THEN
        IF text.arr = "ok" THEN Answer("list", text.n)
        ELSE IF res.success /\ res.rows # << >> THEN ExtractFromSqlResults(res, hint)
        ELSE Answer("list", 0)
    ELSE IF IsDictHint(hint) THEN
        IF text.obj = "ok" THEN Answer("dict", text.n)
        ELSE IF res.success /\ res.rows # << >> THEN ExtractFromSqlResults(res, hint)
        ELSE Answer("dict", 0)
    ELSE Answer("str", 0)

RECURSIVE SumScores(_, _, _)
\* sum(c.score for c in chunks), added from the left onto acc
SumScores(acc, chunks, scores) ==
    IF chunks = << >> THEN acc
    ELSE SumScores(FAdd[acc, scores[Head(chunks).idx]], Tail(chunks), scores)

\* a confidence that adds the mean score itself and is not clamped
CalculateConfidenceRaw(res, chunks, scores, repairs) ==
    LET exec == IF res.success THEN FAdd[FHalf, FFifth] ELSE FHalf
        rows == IF res.row_count > 0 THEN FAdd[exec, FTenth] ELSE exec
        avg_score == FDivInt[SumScores(FZero, chunks, scores), Len(chunks)]
    IN IF chunks # << >> THEN FAdd[rows, avg_score] ELSE rows

\* _calculate_confidence, with the scores the chunks have when it runs
CalculateConfidence(res, chunks, scores, repairs) ==
    LET base == FHalf
        exec == IF res.success THEN FAdd[base, FFifth] ELSE base
        rows == IF res.row_count > 0 THEN FAdd[exec, FTenth] ELSE exec
        avg_score == FDivInt[SumScores(FZero, chunks, scores), Len(chunks)]
        docs == IF chunks # << >>
                THEN FAdd[rows, FMin(FTimesFifth[avg_score], FFifth)]
                ELSE rows
        penalty == FTimesInt[repairs, FTenth]
    IN IF FLess(docs, penalty) THEN FZero     \* max(0.0, a negative float)
       ELSE FMax(FZero, FMin(FOne, FSub[docs, penalty]))

-----------------------------------------------------------------------------
(* Context text: planner, truncation, repair hints *)

\* len(text) of the error texts and hint lines of the model
TextLen(t) ==
    CASE t = None -> 4
      [] t = ErrNoColumn -> 30
      [] t = ErrSyntax -> 25
      [] t = PreflightBetween -> 54
      [] t = PreflightAlias -> 91
      [] t = PreflightKeyword -> 34
      [] t = PreflightSum -> 74
      [] OTHER -> 40

HintColumn == "Column 'c.categoryname' not found."
HintCatAlias == "FIX: Use 'cat.CategoryName' - alias 'cat' for Categories table."
HintCatJoin == "JOIN Categories cat ON p.CategoryID = cat.CategoryID"
HintSyntax == "SQL syntax error detected."
HintParens == "Ensure all parentheses are balanced."
HintSqlite == "Use standard SQLite syntax only."
HintEmpty == "Query returned no results."
HintDateShift == "Check date format: use '2017-MM-DD' (dates shifted +20 years)"
HintWhere == "Check WHERE conditions are not too restrictive."
HintReminder == "\nALIAS REMINDER: o=orders, od=order_items, p=products, cat=Categories, c=customers"
HintGeneric == "Previous query failed. Check table names and aliases."
HintAliases == "ALIASES: o=orders, od=order_items, p=products, cat=Categories, c=customers"

\* error_msg.lower() contains "no such column" / "syntax error" / "0 rows" or "empty"
HasNoSuchColumn(e) == e \in { ErrNoColumn }
HasSyntaxError(e) == e \in { ErrSyntax }
HasEmptyWords(e) == e \in { "Query returned 0 rows" }

\* hints that name no error class
GetDynamicRepairHintsGeneric(error_msg, previous_query) ==
    << HintGeneric, HintAliases >>

\* _get_dynamic_repair_hints: the hint lines (error_msg None gives "")
GetDynamicRepairHints(error_msg, previous_query) ==
    LET specific ==
          IF error_msg = None THEN << >>
          ELSE IF HasNoSuchColumn(error_msg)
               THEN << HintColumn, HintCatAlias, HintCatJoin >>
          ELSE IF HasSyntaxError(error_msg)
               THEN << HintSyntax, HintParens, HintSqlite >>
          ELSE IF HasEmptyWords(error_msg)
               THEN << HintEmpty, HintDateShift, HintWhere >>
          ELSE << >>
    IN IF specific # << >> THEN Append(specific, HintReminder)
       ELSE << HintGeneric, HintAliases >>

\* len("\n".join(hints))
HintsLen(hints) ==
    CASE hints[1] = HintColumn -> 234
      [] hints[1] = HintSyntax -> 179
      [] hints[1] = HintEmpty -> 219
      [] OTHER -> 128

\* the text appended by a query repair: "\n\n" + repair_context
RepairNote(error_msg, previous_query) ==
    LET hints == GetDynamicRepairHints(error_msg, previous_query)
    IN [ tag |-> "repair", cut |-> FALSE, hints |-> hints,
         len |-> 2 + 49 + TextLen(error_msg) + Min(previous_query.len, QueryCut)
                 + HintsLen(hints) ]

\* the text appended by an output repair: "\n\n" + repair_context
FormatNote(hint) ==
    Seg("format_note", 2 + 52 + (IF hint = HintListTop3 THEN 40
                                 ELSE IF hint = HintList THEN 34 ELSE 28))

RECURSIVE Prefix(_, _)
\* the first n characters of a context
Prefix(segs, n) ==
    IF segs = << >> \/ n <= 0 THEN << >>
    ELSE IF Head(segs).len <= n
         THEN << Head(segs) >> \o Prefix(Tail(segs), n - Head(segs).len)
         ELSE << [ Head(segs) EXCEPT !.len = n, !.cut = TRUE ] >>

\* a truncation that cuts the context at the cap of the failed query
LimitContextShort(segs) ==
    IF SumLen(segs) > ContextCap
    THEN Append(Prefix(segs, QueryCut), Seg("ellipsis", 3))
    ELSE segs

\* original_context of the query repair (lines 383-386)
LimitContext(segs) ==
    IF SumLen(segs) > ContextCap
    THEN Append(Prefix(segs, ContextCap), Seg("ellipsis", 3))
    ELSE segs

\* the extracted_info lines of the planner, by what the chunks contain
ExtractedInfo(chunks) ==
    (IF \E i \in 1..Len(chunks) : ChunkDates[chunks[i].idx] THEN << 35 >> ELSE << >>)
    \o (IF \E i \in 1..Len(chunks) : ChunkKpi[chunks[i].idx] THEN << 66 >> ELSE << >>)
    \o (IF \E i \in 1..Len(chunks) : ChunkCategories[chunks[i].idx] THEN << 21 >> ELSE << >>)

RECURSIVE SumSeq(_)
SumSeq(s) == IF s = << >> THEN 0 ELSE Head(s) + SumSeq(Tail(s))

\* state["context"] written by the planner
PlannerContext(chunks) ==
    LET info == ExtractedInfo(chunks)
        evidence == IF chunks = << >> THEN << >>
                    ELSE << Seg("evidence",
                                SumSeq([ i \in 1..Len(chunks) |-> chunks[i].len ])
                                    + 2 * (Len(chunks) - 1)) >>
    IN IF info # << >>
       THEN << Seg("constraints", SumSeq(info) + (Len(info) - 1) + 2) >> \o evidence
       ELSE evidence

-----------------------------------------------------------------------------
(* Routing functions (the conditional edges of _build_graph) *)

\* a router edge that sends every category to the retriever
RouteAfterRouterAlwaysRetrieve(qt) == "retriever"

\* _route_after_router, through the edge map of the router
RouteAfterRouter(qt) == IF qt = "sql" THEN "nl_sql" ELSE "retriever"

\* _route_after_planner
RouteAfterPlanner(qt) == IF qt = "rag" THEN "synthesizer" ELSE "nl_sql"

\* an edge after the executor that lets an empty result through
RouteAfterExecutorNoEmpty(err, res, repairs) ==
    IF (err # None \/ ~res.success) /\ repairs < MaxRepairs THEN "repair"
    ELSE "synthesizer"

\* _route_after_executor
RouteAfterExecutor(err, res, repairs) ==
    IF err # None \/ ~res.success
    THEN IF repairs < MaxRepairs THEN "repair" ELSE "synthesizer"
    ELSE IF res.row_count = 0 /\ repairs < MaxRepairs THEN "repair"
    ELSE "synthesizer"

\* _route_after_synthesizer
RouteAfterSynthesizer(answer, hint, repairs) ==
    IF ~ValidateAnswerFormat(answer, hint) /\ repairs < MaxRepairs THEN "repair"
    ELSE "END"

\* an edge after the repair that looks at the repair kind only
RouteAfterRepairByKind(repairs, kind) ==
    IF kind = "sql" THEN "nl_sql"
    ELSE IF kind = "output" THEN "synthesizer"
    ELSE "END"

\* _route_after_repair
RouteAfterRepair(repairs, kind) ==
    IF repairs >= MaxRepairs THEN "END"
    ELSE IF kind = "sql" THEN "nl_sql"
    ELSE IF kind = "output" THEN "synthesizer"
    ELSE "END"

\* a repair step that leaves the counter as it was
NextRepairCountStuck(repairs) == repairs

\* the repair counter written on entry of _repair_node
NextRepairCount(repairs) == repairs + 1

\* the branch _repair_node takes (lines 361-365, 396, 423)
RepairKind(err, res, answer, hint) ==
    LET has_sql_error == err # None \/ ~res.success
        has_empty_results == res.success /\ res.row_count = 0
        has_output_issue == answer.t # None /\ ~ValidateAnswerFormat(answer, hint)
    IN IF has_sql_error \/ has_empty_results THEN "sql"
       ELSE IF has_output_issue THEN "output"
       ELSE "end"

-----------------------------------------------------------------------------
(* The request: process_question and the nodes of the graph *)

\* _log_trace, for the lines a node logs
Log(msgs) == trace \o msgs

\* process_question, up to graph.invoke: the initial state and its three log lines
Init ==
    /\ pc = "router"
    /\ prev = "start"
    /\ format_hint \in FormatHints
    /\ query_type = None
    /\ retrieved_chunks = << >>
    /\ context = << >>
    /\ sql_query = NoQuery
    /\ sql_results = EmptyResults
    /\ final_answer = NoAnswer
    /\ explanation = ""
    /\ citations = << >>
    /\ confidence = FZero
    /\ repair_count = 0
    /\ repair_type = None
    /\ error = None
    /\ db_tables_used = << >>
    /\ trace = << "=== Processing question", "Question", "Format hint" >>
    /\ calls = [ c \in Capabilities |-> 0 ]
    /\ raisedAt = "none"
    /\ trace_file = NotWritten
    /\ result = NoResult
    /\ chunk_score = [ c \in 1..NumChunks |-> FZero ]
    /\ answer_str = NoneText
    /\ questions = << >>
    /\ q_index = 0
    /\ results = << >>
    /\ output = NotWritten

\* an exception leaves the node and graph.invoke: process_question raises
Raise(node, msgs) ==
    /\ pc' = "raised"
    /\ prev' = node
    /\ raisedAt' = node
    /\ trace' = Log(msgs)

\* _router_node, the classifier returning
RouterNode ==
    /\ pc = "router"
    /\ \E t \in ClassifierOutputs :
          /\ query_type' = NormalizeQueryType(t)
          /\ pc' = RouteAfterRouter(NormalizeQueryType(t))
    /\ prev' = "router"
    /\ calls' = Called("classifier")
    /\ trace' = Log(<< "Router: Classifying question type", "Router: Determined type" >>)
    /\ UNCHANGED << format_hint, retrieved_chunks, context, sql_query, sql_results,
                    final_answer, explanation, citations, confidence, repair_count,
                    repair_type, error, db_tables_used, raisedAt, trace_file, result,
                    chunk_score, outside >>

\* _router_node, the classifier raising: Router.forward catches nothing
RouterRaises ==
    /\ pc = "router"
    /\ calls' = Called("classifier")
    /\ Raise("router", << "Router: Classifying question type" >>)
    /\ UNCHANGED << format_hint, query_type, retrieved_chunks, context, sql_query,
                    sql_results, final_answer, explanation, citations, confidence,
                    repair_count, repair_type, error, db_tables_used, trace_file,
                    result,
                    chunk_score, outside >>

\* _retriever_node (the index is loaded by __init__, so retrieve does not raise)
RetrieverNode ==
    /\ pc = "retriever"
    /\ \E sim \in [ 1..NumChunks -> ScoreValues ] :
          /\ retrieved_chunks' = Retrieve(sim, TopK)
          /\ chunk_score' = ScoresAfterRetrieve(chunk_score, sim, TopK)
    /\ pc' = "planner"
    /\ prev' = "retriever"
    /\ calls' = Called("retriever")
    /\ trace' = Log(<< "Retriever: Fetching relevant documents", "Retriever: Found chunks" >>)
    /\ UNCHANGED << format_hint, query_type, context, sql_query, sql_results,
                    final_answer, explanation, citations, confidence, repair_count,
                    repair_type, error, db_tables_used, raisedAt, trace_file, result,
                    outside >>

\* _planner_node
PlannerNode ==
    /\ pc = "planner"
    /\ context' = PlannerContext(retrieved_chunks)
    /\ pc' = RouteAfterPlanner(query_type)
    /\ prev' = "planner"
    /\ trace' = Log(<< "Planner: Extracting constraints from documents",
                       "Planner: Extracted constraints" >>)
    /\ UNCHANGED << format_hint, query_type, retrieved_chunks, sql_query, sql_results,
                    final_answer, explanation, citations, confidence, repair_count,
                    repair_type, error, db_tables_used, calls, raisedAt, trace_file,
                    result,
                    chunk_score, outside >>

\* _nl_sql_node, NLToSQL.forward returning the query q
NlSqlNode ==
    /\ pc = "nl_sql"
    /\ \E q \in Queries :
          LET pre == ValidateSqlPreflight(q) IN
          /\ sql_query' = q
          /\ IF ~pre[1]
             THEN /\ error' = pre[2]
                  /\ sql_results' = Results(FALSE, << >>, pre[2])
                  /\ trace' = Log(<< "NL-SQL: Generating SQL query",
                                     "NL-SQL: Pre-flight validation failed",
                                     "NL-SQL: Generated query" >>)
             ELSE /\ UNCHANGED << error, sql_results >>
                  /\ trace' = Log(<< "NL-SQL: Generating SQL query",
                                     "NL-SQL: Generated query" >>)
    /\ pc' = "executor"
    /\ prev' = "nl_sql"
    /\ calls' = Called("generator")
    /\ UNCHANGED << format_hint, query_type, retrieved_chunks, context, final_answer,
                    explanation, citations, confidence, repair_count, repair_type,
                    db_tables_used, raisedAt, trace_file, result,
                    chunk_score, outside >>

\* _nl_sql_node, NLToSQL.forward raising RuntimeError (LM failure, empty or too
\* short query): the node catches nothing
NlSqlRaises ==
    /\ pc = "nl_sql"
    /\ calls' = Called("generator")
    /\ Raise("nl_sql", << "NL-SQL: Generating SQL query" >>)
    /\ UNCHANGED << format_hint, query_type, retrieved_chunks, context, sql_query,
                    sql_results, final_answer, explanation, citations, confidence,
                    repair_count, repair_type, error, db_tables_used, trace_file,
                    result,
                    chunk_score, outside >>

\* the line _executor_node logs for a failed query
QueryFailedLine(err) ==
    CASE err = ErrNoColumn -> "Executor: Query failed - no such column: c.CategoryName"
      [] err = ErrSyntax -> "Executor: Query failed - near \"FORM\": syntax error"
      [] OTHER -> "Executor: Query failed"

\* the line _route_after_executor logs on its way to route
ExecutorRouteLog(err, res, repairs) ==
    IF err # None \/ ~res.success
    THEN IF repairs < MaxRepairs THEN << "Routing to repair" >>
         ELSE << "Max repairs reached, synthesizing with error" >>
    ELSE IF res.row_count = 0 /\ repairs < MaxRepairs
         THEN << "Empty results, routing to repair" >>
         ELSE << >>

\* _executor_node with the error field set: the query is not executed
ExecutorSkips ==
    /\ pc = "executor"
    /\ error # None
    /\ pc' = RouteAfterExecutor(error, sql_results, repair_count)
    /\ prev' = "executor"
    /\ trace' = Log(<< "Executor: Skipped (pre-flight error)" >>
                    \o ExecutorRouteLog(error, sql_results, repair_count))
    /\ UNCHANGED << format_hint, query_type, retrieved_chunks, context, sql_query,
                    sql_results, final_answer, explanation, citations, confidence,
                    repair_count, repair_type, error, db_tables_used, calls, raisedAt,
                    trace_file, result,
                    chunk_score, outside >>

\* an executor that runs the query whatever the error field holds
ExecutorNodeUnguarded ==
    /\ pc = "executor"
    /\ \E r \in ExecOutcomes :
          LET err == IF r.success THEN error ELSE r.error IN
          /\ sql_results' = r
          /\ error' = err
          /\ pc' = RouteAfterExecutor(err, r, repair_count)
          /\ trace' = Log(<< "Executor: Executing SQL query",
                             IF r.success THEN "Executor: Query succeeded"
                                          ELSE QueryFailedLine(r.error) >>
                          \o ExecutorRouteLog(err, r, repair_count))
    /\ db_tables_used' = TablesUsedAfter(db_tables_used, sql_query)
    /\ prev' = "executor"
    /\ calls' = Called("executor")
    /\ UNCHANGED << format_hint, query_type, retrieved_chunks, context, sql_query,
                    final_answer, explanation, citations, confidence, repair_count,
                    repair_type, raisedAt, trace_file, result,
                    chunk_score, outside >>

\* _executor_node, SQLiteTool.execute_query returning r
ExecutorNode ==
    /\ pc = "executor"
    /\ error = None
    /\ \E r \in ExecOutcomes :
          LET err == IF r.success THEN error ELSE r.error IN
          /\ sql_results' = r
          /\ error' = err
          /\ pc' = RouteAfterExecutor(err, r, repair_count)
          /\ trace' = Log(<< "Executor: Executing SQL query",
                             IF r.success THEN "Executor: Query succeeded"
                                          ELSE QueryFailedLine(r.error) >>
                          \o ExecutorRouteLog(err, r, repair_count))
    /\ db_tables_used' = TablesUsedAfter(db_tables_used, sql_query)
    /\ prev' = "executor"
    /\ calls' = Called("executor")
    /\ UNCHANGED << format_hint, query_type, retrieved_chunks, context, sql_query,
                    final_answer, explanation, citations, confidence, repair_count,
                    repair_type, raisedAt, trace_file, result,
                    chunk_score, outside >>

\* _executor_node, execute_query raising: get_db_connection raises
\* FileNotFoundError outside the try block when the database file is missing
ExecutorRaises ==
    /\ pc = "executor"
    /\ error = None
    /\ calls' = Called("executor")
    /\ Raise("executor", << "Executor: Executing SQL query" >>)
    /\ UNCHANGED << format_hint, query_type, retrieved_chunks, context, sql_query,
                    sql_results, final_answer, explanation, citations, confidence,
                    repair_count, repair_type, error, db_tables_used, trace_file,
                    result,
                    chunk_score, outside >>

\* sql_results as the synthesizer node sees it (lines 445-446)
SynthesizerResults ==
    IF query_type = "rag" /\ ~sql_results.set THEN Results(TRUE, << >>, None)
    ELSE sql_results

SynthesizerRouteLog(answer, hint, repairs) ==
    IF RouteAfterSynthesizer(answer, hint, repairs) = "repair"
    THEN << "Invalid answer format, routing to repair" >>
    ELSE << >>

\* what both branches of _synthesizer_node do after the try statement
SynthesizerTail(answer) ==
    /\ final_answer' = answer
    /\ sql_results' = SynthesizerResults
    /\ confidence' = CalculateConfidence(SynthesizerResults, retrieved_chunks,
                                          chunk_score, repair_count)
    /\ pc' = RouteAfterSynthesizer(answer, format_hint, repair_count)
    /\ prev' = "synthesizer"
    /\ calls' = Called("synthesizer")
    /\ UNCHANGED << format_hint, query_type, retrieved_chunks, context, sql_query,
                    repair_count, repair_type, error, db_tables_used, raisedAt,
                    trace_file, result,
                    chunk_score, outside >>

\* _synthesizer_node, Synthesizer.forward returning
SynthesizerNode ==
    /\ pc = "synthesizer"
    /\ \E lm \in SynthOutputs :
          LET out == SynthForward(lm, db_tables_used, retrieved_chunks)
              answer == FormatAnswer(out.final_answer, format_hint, SynthesizerResults)
          IN /\ SynthesizerTail(answer)
             /\ explanation' = out.explanation
             /\ citations' = out.citations
             /\ trace' = Log(<< "Synthesizer: Formatting final answer",
                                "Synthesizer: Answer formatted" >>
                             \o SynthesizerRouteLog(answer, format_hint, repair_count))

\* the citations of the except branch of _synthesizer_node (lines 481-486)
FallbackCitations(tables, chunks) == tables \o ChunkIdsOf(chunks)

\* _synthesizer_node, Synthesizer.forward raising: the except branch
SynthesizerFallback ==
    /\ pc = "synthesizer"
    /\ LET answer == FormatAnswer(NoneText, format_hint, SynthesizerResults)
       IN /\ SynthesizerTail(answer)
          /\ explanation' = ExplDirect
          /\ citations' = FallbackCitations(db_tables_used, retrieved_chunks)
          /\ trace' = Log(<< "Synthesizer: Formatting final answer",
                             "Synthesizer failed, extracting from SQL directly",
                             "Synthesizer: Answer formatted" >>
                          \o SynthesizerRouteLog(answer, format_hint, repair_count))

RepairRouteLog(repairs) ==
    IF repairs >= MaxRepairs THEN << "Max repairs reached, ending" >> ELSE << >>

\* a query repair that leaves the citations of the last synthesis
RepairQueryKeepsCitations ==
    /\ pc = "repair"
    /\ RepairKind(error, sql_results, final_answer, format_hint) = "sql"
    /\ repair_count' = NextRepairCount(repair_count)
    /\ context' = Append(LimitContext(context), RepairNote(error, sql_query))
    /\ error' = None
    /\ final_answer' = NoAnswer
    /\ repair_type' = "sql"
    /\ pc' = RouteAfterRepair(NextRepairCount(repair_count), "sql")
    /\ prev' = "repair"
    /\ trace' = Log(<< "Repair: Attempt",
                       IF sql_results.success /\ sql_results.row_count = 0
                       THEN "Repair: Fixing SQL query (empty results)"
                       ELSE "Repair: Fixing SQL query",
                       "Repair: Added targeted hints for SQL regeneration" >>
                    \o RepairRouteLog(NextRepairCount(repair_count)))
    /\ UNCHANGED << format_hint, query_type, retrieved_chunks, sql_query, sql_results,
                    explanation, citations, confidence, db_tables_used, calls, raisedAt,
                    trace_file, result,
                    chunk_score, outside >>

\* _repair_node, query repair (lines 365-394)
RepairQuery ==
    /\ pc = "repair"
    /\ RepairKind(error, sql_results, final_answer, format_hint) = "sql"
    /\ repair_count' = NextRepairCount(repair_count)
    /\ context' = Append(LimitContext(context), RepairNote(error, sql_query))
    /\ error' = None
    /\ final_answer' = NoAnswer
    /\ citations' = << >>
    /\ repair_type' = "sql"
    /\ pc' = RouteAfterRepair(NextRepairCount(repair_count), "sql")
    /\ prev' = "repair"
    /\ trace' = Log(<< "Repair: Attempt",
                       IF sql_results.success /\ sql_results.row_count = 0
                       THEN "Repair: Fixing SQL query (empty results)"
                       ELSE "Repair: Fixing SQL query",
                       "Repair: Added targeted hints for SQL regeneration" >>
                    \o RepairRouteLog(NextRepairCount(repair_count)))
    /\ UNCHANGED << format_hint, query_type, retrieved_chunks, sql_query, sql_results,
                    explanation, confidence, db_tables_used, calls, raisedAt,
                    trace_file, result,
                    chunk_score, outside >>

\* an output repair that starts the table list afresh
RepairOutputForgetsTables ==
    /\ pc = "repair"
    /\ RepairKind(error, sql_results, final_answer, format_hint) = "output"
    /\ repair_count' = NextRepairCount(repair_count)
    /\ context' = Append(context, FormatNote(format_hint))
    /\ \E lm \in SynthOutputs :
          LET out == SynthForward(lm, db_tables_used, retrieved_chunks) IN
          /\ final_answer' = FormatAnswer(out.final_answer, format_hint, sql_results)
          /\ explanation' = out.explanation
          /\ citations' = out.citations
    /\ repair_type' = "output"
    /\ db_tables_used' = << >>
    /\ pc' = RouteAfterRepair(NextRepairCount(repair_count), "output")
    /\ prev' = "repair"
    /\ calls' = Called("synthesizer")
    /\ trace' = Log(<< "Repair: Attempt", "Repair: Fixing output format",
                       "Repair: Regenerated answer" >>
                    \o RepairRouteLog(NextRepairCount(repair_count)))
    /\ UNCHANGED << format_hint, query_type, retrieved_chunks, sql_query, sql_results,
                    confidence, error, raisedAt, trace_file, result,
                    chunk_score, outside >>

\* _repair_node, output repair (lines 396-422), Synthesizer.forward returning
RepairOutput ==
    /\ pc = "repair"
    /\ RepairKind(error, sql_results, final_answer, format_hint) = "output"
    /\ repair_count' = NextRepairCount(repair_count)
    /\ context' = Append(context, FormatNote(format_hint))
    /\ \E lm \in SynthOutputs :
          LET out == SynthForward(lm, db_tables_used, retrieved_chunks) IN
          /\ final_answer' = FormatAnswer(out.final_answer, format_hint, sql_results)
          /\ explanation' = out.explanation
          /\ citations' = out.citations
    /\ repair_type' = "output"
    /\ pc' = RouteAfterRepair(NextRepairCount(repair_count), "output")
    /\ prev' = "repair"
    /\ calls' = Called("synthesizer")
    /\ trace' = Log(<< "Repair: Attempt", "Repair: Fixing output format",
                       "Repair: Regenerated answer" >>
                    \o RepairRouteLog(NextRepairCount(repair_count)))
    /\ UNCHANGED << format_hint, query_type, retrieved_chunks, sql_query, sql_results,
                    confidence, error, db_tables_used, raisedAt, trace_file, result,
                    chunk_score, outside >>

\* _repair_node, output repair, Synthesizer.forward raising: no try statement
\* surrounds the call at lines 403-410
RepairOutputRaises ==
    /\ pc = "repair"
    /\ RepairKind(error, sql_results, final_answer, format_hint) = "output"
    /\ repair_count' = NextRepairCount(repair_count)
    /\ context' = Append(context, FormatNote(format_hint))
    /\ calls' = Called("synthesizer")
    /\ Raise("repair", << "Repair: Attempt", "Repair: Fixing output format" >>)
    /\ UNCHANGED << format_hint, query_type, retrieved_chunks, sql_query, sql_results,
                    final_answer, explanation, citations, confidence, repair_type,
                    error, db_tables_used, trace_file, result,
                    chunk_score, outside >>

\* _repair_node, neither repair (lines 423-424)
RepairNeither ==
    /\ pc = "repair"
    /\ RepairKind(error, sql_results, final_answer, format_hint) = "end"
    /\ repair_count' = NextRepairCount(repair_count)
    /\ repair_type' = "end"
    /\ pc' = RouteAfterRepair(NextRepairCount(repair_count), "end")
    /\ prev' = "repair"
    /\ trace' = Log(<< "Repair: Attempt" >>
                    \o RepairRouteLog(NextRepairCount(repair_count)))
    /\ UNCHANGED << format_hint, query_type, retrieved_chunks, context, sql_query,
                    sql_results, final_answer, explanation, citations, confidence,
                    error, db_tables_used, calls, raisedAt, trace_file, result,
                    chunk_score, outside >>

\* a process_question that computes the confidence of the record at the end
FinishRecomputes ==
    /\ pc = "END"
    /\ trace' = Log(<< "=== Completed question", "Final answer type", "Confidence" >>)
    /\ trace_file' = trace'
    /\ result' = [ returned |-> TRUE, final_answer |-> final_answer, sql |-> sql_query,
                   confidence |-> CalculateConfidence(sql_results, retrieved_chunks,
                                                     chunk_score, repair_count),
                   explanation |-> explanation,
                   citations |-> citations ]
    /\ pc' = "returned"
    /\ UNCHANGED << prev, format_hint, query_type, retrieved_chunks, context, sql_query,
                    sql_results, final_answer, explanation, citations, confidence,
                    repair_count, repair_type, error, db_tables_used, calls, raisedAt,
                    chunk_score, outside >>

\* process_question after graph.invoke returned: the closing log lines, the trace
\* file and the returned record
Finish ==
    /\ pc = "END"
    /\ trace' = Log(<< "=== Completed question", "Final answer type", "Confidence" >>)
    /\ trace_file' = trace'
    /\ result' = [ returned |-> TRUE, final_answer |-> final_answer, sql |-> sql_query,
                   confidence |-> confidence, explanation |-> explanation,
                   citations |-> citations ]
    /\ pc' = "returned"
    /\ UNCHANGED << prev, format_hint, query_type, retrieved_chunks, context, sql_query,
                    sql_results, final_answer, explanation, citations, confidence,
                    repair_count, repair_type, error, db_tables_used, calls, raisedAt,
                    chunk_score, outside >>

Next ==
    \/ RouterNode
    \/ RouterRaises
    \/ RetrieverNode
    \/ PlannerNode
    \/ NlSqlNode
    \/ NlSqlRaises
    \/ ExecutorSkips
    \/ ExecutorNode
    \/ ExecutorRaises
    \/ SynthesizerNode
    \/ SynthesizerFallback
    \/ RepairQuery
    \/ RepairOutput
    \/ RepairOutputRaises
    \/ RepairNeither
    \/ Finish

Spec == Init /\ [][Next]_vars

\* the pipeline is sequential and every capability call returns or raises: a
\* request that can take a step takes one
FairSpec == Spec /\ WF_vars(Next)

-----------------------------------------------------------------------------
(* Requests sharing the agent: while the request runs, other requests go
   through the same HybridAgent and so through the same DocumentRetriever *)

\* _retriever_node of another request: retrieve() writes the similarities of
\* that request's question into the Chunk objects of the shared index
PeerRetrieves ==
    /\ \E sim \in [ 1..NumChunks -> ScoreValues ] :
          chunk_score' = ScoresAfterRetrieve(chunk_score, sim, TopK)
    /\ UNCHANGED << pc, prev, format_hint, query_type, retrieved_chunks, context,
                    sql_query, sql_results, final_answer, explanation, citations,
                    confidence, repair_count, repair_type, error, db_tables_used,
                    trace, calls, raisedAt, trace_file, result, outside >>

ConcurrentNext ==
    \/ Next
    \/ PeerRetrieves

ConcurrentSpec == Init /\ [][ConcurrentNext]_vars

-----------------------------------------------------------------------------
(* The answer coercion on its own: _format_answer applied to an answer text, a
   format hint and an execution result *)

\* an execution result of n rows of a product listing
ProductRows(n) ==
    [ i \in 1..n |-> << Cell("ProductName", FALSE, i), Cell("revenue", TRUE, i) >> ]

CoerceHints == FormatHints \cup { HintListTop3 }
CoerceResults == ExecOutcomes \cup { Results(TRUE, ProductRows(n), None) : n \in 1..MaxRows }
\* the answers of the synthesizer, and "[{..}, {..}]" which json.loads parses
CoerceAnswers == SynthAnswers \cup { AnswerText(FALSE, FALSE, 0, "ok", "none", 2) }

CoerceInit ==
    /\ pc = "coerce"
    /\ prev = "start"
    /\ format_hint \in CoerceHints
    /\ sql_results \in CoerceResults
    /\ answer_str \in CoerceAnswers
    /\ query_type = None
    /\ retrieved_chunks = << >>
    /\ context = << >>
    /\ sql_query = NoQuery
    /\ final_answer = NoAnswer
    /\ explanation = ""
    /\ citations = << >>
    /\ confidence = FZero
    /\ repair_count = 0
    /\ repair_type = None
    /\ error = None
    /\ db_tables_used = << >>
    /\ trace = << >>
    /\ calls = [ c \in Capabilities |-> 0 ]
    /\ raisedAt = "none"
    /\ trace_file = NotWritten
    /\ result = NoResult
    /\ chunk_score = [ c \in 1..NumChunks |-> FZero ]
    /\ questions = << >>
    /\ q_index = 0
    /\ results = << >>
    /\ output = NotWritten

\* _format_answer(answer_str, format_hint, sql_results)
Coerce ==
    /\ pc = "coerce"
    /\ final_answer' = FormatAnswer(answer_str, format_hint, sql_results)
    /\ pc' = "coerced"
    /\ UNCHANGED << prev, format_hint, query_type, retrieved_chunks, context, sql_query,
                    sql_results, explanation, citations, confidence, repair_count,
                    repair_type, error, db_tables_used, trace, calls, raisedAt,
                    trace_file, result, chunk_score, outside >>

CoerceSpec == CoerceInit /\ [][Coerce]_vars

-----------------------------------------------------------------------------
(* The batch run: main() of run_agent_hybrid.py, one step per question, with
   process_question as a call that returns a record or raises *)

\* the record main() collects for question id when process_question returned rec
BatchRecord(id, rec) ==
    [ id |-> id, final_answer |-> rec.final_answer, sql |-> rec.sql,
      confidence |-> rec.confidence, explanation |-> rec.explanation,
      citations |-> rec.citations ]

ErrorExplanation == "Error: <str(e)>"

\* the record main() builds in its except branch
ErrorRecord(id) ==
    [ id |-> id, final_answer |-> NoAnswer, sql |-> NoQuery, confidence |-> FZero,
      explanation |-> ErrorExplanation, citations |-> << >> ]

\* records process_question returns: an answer, a list answer with citations,
\* and the null answer of a request that ended in the repair step
QuestionRecords ==
    { [ NoResult EXCEPT !.returned = TRUE, !.final_answer = Answer("int", 42),
                        !.sql = QTotal, !.explanation = ExplLM,
                        !.confidence = FAdd[FAdd[FHalf, FFifth], FTenth],
                        !.citations = << "Orders" >> ],
      [ NoResult EXCEPT !.returned = TRUE, !.final_answer = Answer("list", 2),
                        !.sql = QJoin, !.explanation = ExplDirect,
                        !.confidence = FHalf,
                        !.citations = << "Orders", "Order Details" >> ],
      [ NoResult EXCEPT !.returned = TRUE, !.sql = QTotal ] }

\* a batch that loses the record of a question whose processing raised
RecordsAfterFailureDropped(collected, id) == collected

\* results after the except branch of main() ran for question id
RecordsAfterFailure(collected, id) == Append(collected, ErrorRecord(id))

BatchInit ==
    /\ pc = "batch"
    /\ \E n \in 0..MaxBatch : questions = [ i \in 1..n |-> i ]
    /\ q_index = 0
    /\ results = << >>
    /\ output = NotWritten
    /\ answer_str = NoneText
    /\ prev = "start"
    /\ format_hint = HintStr
    /\ query_type = None
    /\ retrieved_chunks = << >>
    /\ context = << >>
    /\ sql_query = NoQuery
    /\ sql_results = EmptyResults
    /\ final_answer = NoAnswer
    /\ explanation = ""
    /\ citations = << >>
    /\ confidence = FZero
    /\ repair_count = 0
    /\ repair_type = None
    /\ error = None
    /\ db_tables_used = << >>
    /\ trace = << >>
    /\ calls = [ c \in Capabilities |-> 0 ]
    /\ raisedAt = "none"
    /\ trace_file = NotWritten
    /\ result = NoResult
    /\ chunk_score = [ c \in 1..NumChunks |-> FZero ]

\* what a step of main() leaves alone: the state of a request
request == << prev, format_hint, query_type, retrieved_chunks, context, sql_query,
             sql_results, final_answer, explanation, citations, confidence,
             repair_count, repair_type, error, db_tables_used, trace, calls,
             raisedAt, trace_file, result, chunk_score, answer_str >>

\* one turn of the loop, process_question returning
ProcessReturns ==
    /\ pc = "batch"
    /\ q_index < Len(questions)
    /\ \E rec \in QuestionRecords :
          results' = Append(results, BatchRecord(questions[q_index + 1], rec))
    /\ q_index' = q_index + 1
    /\ UNCHANGED << pc, questions, output, request >>

\* one turn of the loop, process_question raising an Exception
ProcessRaises ==
    /\ pc = "batch"
    /\ q_index < Len(questions)
    /\ results' = RecordsAfterFailure(results, questions[q_index + 1])
    /\ q_index' = q_index + 1
    /\ UNCHANGED << pc, questions, output, request >>

\* after the loop: the records are written to the output file
WriteOutput ==
    /\ pc = "batch"
    /\ q_index = Len(questions)
    /\ output' = results
    /\ pc' = "batch_done"
    /\ UNCHANGED << questions, q_index, results, request >>

BatchNext ==
    \/ ProcessReturns
    \/ ProcessRaises
    \/ WriteOutput

BatchSpec == BatchInit /\ [][BatchNext]_vars

-----------------------------------------------------------------------------
(* Claims *)

Terminal == { "returned", "raised" }

\* position of a step in one pass of the pipeline, counted from its end
Position(node) ==
    CASE node = "router" -> 8
      [] node = "retriever" -> 7
      [] node = "planner" -> 6
      [] node = "nl_sql" -> 5
      [] node = "executor" -> 4
      [] node = "synthesizer" -> 3
      [] node = "repair" -> 2
      [] node = "END" -> 1
      [] OTHER -> 0

\* what is left of a request: the repairs left, then the steps left in this pass
Rank == (MaxRepairs + 1 - repair_count) * 10 + Position(pc)

\* C1: the repair counter of a request is between 0 and 2 in every reachable
\* state, whatever rejections, failures and empty results occur
C1_RepairCountBounded == repair_count >= 0 /\ repair_count <= 2

\* the graph ended with the counter at its ceiling
C1_Witness == pc = "END" /\ repair_count = 2

\* C2: a request makes at most 1 classifier call, 3 retrieval calls, 3 query
\* generations, 3 query executions and 3 synthesizer calls, those of the repair
\* step included
C2_CallsBounded ==
    /\ calls["classifier"] <= 1
    /\ calls["retriever"] <= 3
    /\ calls["generator"] <= 3
    /\ calls["executor"] <= 3
    /\ calls["synthesizer"] <= 3

\* C3: every request eventually ends (process_question returns a record or
\* raises), whatever the classification and the outcomes of the capability
\* calls; the repair cycles cannot repeat forever because every step either
\* uses up a repair or moves forward in the pipeline
C3_Terminates ==
    /\ <>(pc \in Terminal)
    /\ [][Rank' < Rank /\ Rank' >= 0]_vars

\* a request that went through both repairs and returned
C3_Witness == pc = "returned" /\ repair_count = 2 /\ prev = "repair"

\* C4: a classifier that raises never makes the request fail
C4_ClassifierFailureRecovered == raisedAt # "router"

\* the except branch of _synthesizer_node was the last thing that ran
SynthesizerFailedLast ==
    /\ prev = "synthesizer"
    /\ \E i \in 1..Len(trace) :
          /\ trace[i] = "Synthesizer failed, extracting from SQL directly"
          /\ \A j \in (i + 1)..Len(trace) :
                trace[j] \in { "Synthesizer: Answer formatted",
                               "Invalid answer format, routing to repair" }

\* C5: a synthesizer that raises, in the synthesis step or in the output repair,
\* never makes the request fail: the answer is extracted from the rows and the
\* explanation says so
C5_SynthesizerFailureRecovered ==
    /\ raisedAt \notin { "synthesizer", "repair" }
    /\ SynthesizerFailedLast =>
          /\ explanation = ExplDirect
          /\ final_answer = FormatAnswer(NoneText, format_hint, sql_results)

\* C6: a query generation that raises never makes the request fail (it is
\* handled as a query repair)
C6_GenerationFailureRepaired == raisedAt # "nl_sql"

\* C7: a request whose graph ends with the budget used up by query repairs
\* ended from the synthesizer step, not from the repair step
C7_SynthesisBeforeEnd ==
    (pc = "END" /\ repair_count = 2 /\ repair_type = "sql") => prev = "synthesizer"

\* C8: the repair that follows a failed validation of the answer (the
\* synthesizer step routed to repair) is an output repair, unless the
\* synthesizer raises in it
C8_OutputRepairFollows ==
    [][(pc = "repair" /\ prev = "synthesizer" /\ pc' # "raised")
          => (repair_type' = "output" /\ sql_query' = sql_query
              /\ calls'["generator"] = calls["generator"])]_vars

\* C9: the citation list of the state and of the returned record holds no
\* citation twice, whichever step wrote it
C9_CitationsDeduplicated ==
    /\ NoDuplicates(citations)
    /\ NoDuplicates(result.citations)

\* a record returned with the citations of the synthesizer's except branch and
\* one returned with citations the LM repeated
C9_Witness ==
    /\ pc = "returned"
    /\ Len(result.citations) >= 2
    /\ result.explanation \in { ExplDirect, ExplLM }

\* the context text holds a numeric substring: the evidence text does, every
\* passage being headed by its chunk id ("..::chunk0")
NumericInContext == \E i \in 1..Len(context) : context[i].tag = "evidence"

\* the first row of the execution result holds a numeric value
NumericInRows ==
    /\ sql_results.success
    /\ sql_results.rows # << >>
    /\ FirstNumeric(sql_results.rows[1])[1]

\* C11: for the format hint int the coerced answer the synthesizer step leaves
\* is an integer, never null, as soon as a numeric value exists in the query
\* rows or in the context, whatever the synthesizer answered
C11_IntegerNeverNull ==
    (prev = "synthesizer" /\ format_hint = HintInt
        /\ (NumericInContext \/ NumericInRows))
    => final_answer.t = "int"

\* the floats 0.8 and 0.3
FFourFifths == << 429496729, 161061280 >>
FThreeTenths == << 161061273, 161061272 >>

\* C12: a request classified sql whose single generated query executes with
\* the one row {total: 42}, with format hint int, returns the answer 42 with a
\* confidence of at least 0.8, no repair and no retrieval
C12_QueryOnlyScenario ==
    (pc = "returned" /\ query_type = "sql" /\ format_hint = HintInt
        /\ calls["generator"] = 1 /\ calls["executor"] = 1
        /\ sql_results = Results(TRUE, OneRow, None))
    => /\ result.final_answer = Answer("int", 42)
       /\ FLeq(FFourFifths, result.confidence)
       /\ repair_count = 0
       /\ calls["retriever"] = 0

IsExecutionLine(m) ==
    m \in { QueryFailedLine(ErrNoColumn), QueryFailedLine(ErrSyntax),
            "Executor: Query succeeded", "Executor: Skipped (pre-flight error)" }
IsRepairAttempt(m) == m = "Repair: Attempt"
IsRepairKindLine(m) ==
    m \in { "Repair: Fixing SQL query", "Repair: Fixing SQL query (empty results)",
            "Repair: Fixing output format" }
IsInvalidFormatLine(m) == m = "Invalid answer format, routing to repair"

\* the first execution failed with "no such column: c.CategoryName", the second
\* succeeded with one row, and the answer passed validation
AliasScenario ==
    /\ SelectSeq(trace, IsExecutionLine)
         = << QueryFailedLine(ErrNoColumn), "Executor: Query succeeded" >>
    /\ sql_results.row_count = 1
    /\ SelectSeq(trace, IsInvalidFormatLine) = << >>

\* C13: in that scenario the repair appended a hint with the corrected-alias
\* guidance to the context, and the request ends with repair counter 1 after
\* exactly one repair, a query repair
C13_AliasRepairScenario ==
    (pc = "returned" /\ AliasScenario)
    => /\ repair_count = 1
       /\ Len(SelectSeq(trace, IsRepairAttempt)) = 1
       /\ SelectSeq(trace, IsRepairKindLine) = << "Repair: Fixing SQL query" >>
       /\ repair_type = "sql"
       /\ \E i \in 1..Len(context) :
             /\ context[i].tag = "repair"
             /\ HintCatAlias \in Range(context[i].hints)

C13_Witness == pc = "returned" /\ AliasScenario /\ result.final_answer.t # None

\* C14: a request all of whose query executions failed still ends by returning
\* a record, not by raising, and the confidence of the record is at most 0.3
C14_AllExecutionsFail ==
    (pc \in Terminal /\ calls["executor"] >= 1 /\ raisedAt # "nl_sql"
        /\ \A i \in 1..Len(trace) : trace[i] # "Executor: Query succeeded")
    => /\ pc = "returned"
       /\ FLeq(result.confidence, FThreeTenths)

\* C15: for a list format hint that declares its fields, an answer whose
\* bracket text does not parse is replaced by the projected rows, and the list
\* returned has min(row_count, cap) elements, cap being 3 when the hint says
\* "top 3" and 10 otherwise
C15_ListFallbackLength ==
    (pc = "coerced" /\ IsListHint(format_hint) /\ answer_str.arr = "bad")
    => final_answer = Answer("list", Min(sql_results.row_count,
                                         IF HasTop3(format_hint) THEN 3 ELSE 10))

\* a malformed list answer replaced by rows that the cap of a "top 3" hint cut
C15_Witness ==
    /\ pc = "coerced"
    /\ HasTop3(format_hint)
    /\ answer_str.arr = "bad"
    /\ final_answer.t = "list"
    /\ final_answer.n < sql_results.row_count

\* C16: a batch is never cut short by a request that fails: every question
\* main() has gone past has its record, in input order, a failed one a record
\* with a null answer, and the output file holds one record per question
C16_BatchNeverCutShort ==
    /\ Len(results) = q_index
    /\ \A i \in 1..Len(results) :
          /\ results[i].id = questions[i]
          /\ results[i].explanation = ErrorExplanation
                => results[i].final_answer = NoAnswer
    /\ pc = "batch_done" => (output = results /\ Len(output) = Len(questions))

\* a batch written out whose first question failed and whose second was
\* processed and answered
C16_Witness ==
    /\ pc = "batch_done"
    /\ Len(output) >= 2
    /\ output[1] = ErrorRecord(questions[1])
    /\ output[2].final_answer # NoAnswer

\* C17: the trace of a request is written to its trace file however the
\* request ends, also when an external call raised
C17_TracePersisted == pc \in Terminal => trace_file = trace

\* C18: the query execution capability never raises, whatever the query and
\* the condition of the database
C18_ExecutionNeverRaises == raisedAt # "executor"

\* C19: the tables-used list of a request only grows: every table in it before
\* a step is in it after the step
C19_TablesOnlyGrow ==
    [][\A t \in Range(db_tables_used) : t \in Range(db_tables_used')]_vars

\* after a second execution the list still holds a table that only the first
\* query referenced
C19_Witness ==
    /\ prev = "executor"
    /\ calls["executor"] = 2
    /\ \E t \in Range(db_tables_used) : t \notin Range(ExtractTableNames(sql_query))

\* C20: requests running through the same agent do not interfere: the scores
\* of the chunks a request holds are changed by no step of another request
C20_RequestsIndependent ==
    [][\A i \in 1..Len(retrieved_chunks) :
          chunk_score'[retrieved_chunks[i].idx] = chunk_score[retrieved_chunks[i].idx]]_vars

\* C21: the confidence of the returned record is the confidence formula applied
\* to the final state of the request (execution result, evidence scores and
\* the final repair counter), on every path that returns, those that end in
\* the repair step included
C21_ConfidenceOfFinalState ==
    pc = "returned"
    => result.confidence = CalculateConfidence(sql_results, retrieved_chunks,
                                               chunk_score, repair_count)

\* C22: the confidence of a request, in the state and in the returned record,
\* is a float in [0, 1] in every reachable state
C22_ConfidenceInUnitInterval ==
    /\ FLeq(FZero, confidence) /\ FLeq(confidence, FOne)
    /\ FLeq(FZero, result.confidence) /\ FLeq(result.confidence, FOne)

\* a record returned with every bonus of the formula: successful execution,
\* rows and evidence
C22_Witness ==
    /\ pc = "returned"
    /\ sql_results.row_count > 0
    /\ retrieved_chunks # << >>
    /\ FLess(FFourFifths, result.confidence)

\* C23: once the classifier has returned, the category of the request is one
\* of rag, sql and hybrid whatever text it produced, and the edge taken after
\* the router leads to a node
C23_CategoryOneOfThree ==
    (prev # "start" /\ raisedAt # "router")
    => /\ query_type \in { "rag", "sql", "hybrid" }
       /\ prev = "router" => pc \in { "retriever", "nl_sql" }

\* the router has just stored a category
C23_Witness == prev = "router" /\ pc = "retriever" /\ query_type = "rag"

\* C24: a request classified rag never has a query generated or executed, on
\* any path: not after the planner and not after a repair
C24_EvidenceOnlyNeverQueries ==
    query_type = "rag" => (calls["generator"] = 0 /\ calls["executor"] = 0)

\* C25: the retriever and the planner run only for requests classified rag or
\* hybrid, the retriever returning the top-K chunks: a request classified sql
\* never calls the retriever, and its chunk list and its context stay empty
\* until its first repair
C25_RetrievalOnlyForEvidence ==
    /\ calls["retriever"] > 0 =>
          /\ query_type \in { "rag", "hybrid" }
          /\ Len(retrieved_chunks) = Min(TopK, NumChunks)
    /\ query_type = "sql" =>
          /\ calls["retriever"] = 0
          /\ retrieved_chunks = << >>
          /\ repair_count = 0 => context = << >>
          /\ \A i \in 1..Len(trace) :
                trace[i] # "Planner: Extracting constraints from documents"

\* a request classified sql returned without a repair, and so without context
C25_Witness ==
    /\ pc = "returned"
    /\ query_type = "sql"
    /\ repair_count = 0
    /\ calls["executor"] = 1

\* C26: in every attempt the generated query reaches the execution capability
\* exactly when it passed the pre-flight validation of that attempt: a rejected
\* query is not executed, its error and a failed result being stored instead,
\* and no attempt starts with an error left by an earlier one
C26_ExecutedIffValid ==
    /\ [](pc = "nl_sql" => error = None)
    /\ []((pc = "executor" /\ ~ValidateSqlPreflight(sql_query)[1]) =>
            /\ error = ValidateSqlPreflight(sql_query)[2]
            /\ sql_results = Results(FALSE, << >>, error))
    /\ [][pc = "executor" =>
            ((calls'["executor"] = calls["executor"] + 1)
                <=> ValidateSqlPreflight(sql_query)[1])]_vars

\* a rejected query was skipped, and the valid query generated after the
\* repair was executed
C26_Witness ==
    /\ prev = "executor"
    /\ calls["generator"] = 2
    /\ calls["executor"] = 1
    /\ ValidateSqlPreflight(sql_query)[1]
    /\ \E i \in 1..Len(trace) : trace[i] = "Executor: Skipped (pre-flight error)"

\* the attempt was rejected by the pre-flight, failed, or returned no row
AttemptFailed ==
    error # None \/ ~sql_results.success \/ sql_results.row_count = 0

\* C27: after the execution step with the repair counter below 2, a rejected,
\* failed or empty attempt goes to the repair step, which performs a query
\* repair, and a successful attempt with rows goes to the synthesizer
C27_RouteAfterExecution ==
    /\ []((prev = "executor" /\ pc # "raised" /\ repair_count < 2) =>
            IF AttemptFailed
            THEN /\ pc = "repair"
                 /\ RepairKind(error, sql_results, final_answer, format_hint) = "sql"
            ELSE pc = "synthesizer")
    /\ [][(pc = "repair" /\ prev = "executor") =>
            (repair_type' = "sql" /\ pc' # "raised")]_vars

\* an execution that returned no row was sent to the repair step, with one
\* repair already made
C27_Witness ==
    /\ prev = "executor"
    /\ pc = "repair"
    /\ repair_count = 1
    /\ sql_results.success
    /\ sql_results.row_count = 0

\* C28: after every repair step that returned, a repair counter of 2 or more
\* ends the request whatever the repair kind; below 2, a query repair is
\* followed by the query generation and an output repair by the synthesizer
C28_RouteAfterRepair ==
    (prev = "repair" /\ raisedAt # "repair")
    => IF repair_count >= 2 THEN pc \in { "END", "returned" }
       ELSE /\ repair_type = "sql" => pc = "nl_sql"
            /\ repair_type = "output" => pc = "synthesizer"

\* the second repair, an output repair, ended the request
C28_Witness ==
    /\ prev = "repair"
    /\ pc = "END"
    /\ repair_count = 2
    /\ repair_type = "output"

IsFailedExecutionLine(m) ==
    m \in { QueryFailedLine(ErrNoColumn), QueryFailedLine(ErrSyntax) }

\* C29: a request all of whose executions failed made exactly three attempts
\* before it returned: three query generations and three executions, the
\* first and one after each of its two repairs
C29_ThreeAttempts ==
    (pc = "returned"
        /\ SelectSeq(trace, IsExecutionLine) # << >>
        /\ SelectSeq(trace, IsExecutionLine) = SelectSeq(trace, IsFailedExecutionLine))
    => /\ calls["generator"] = 3
       /\ calls["executor"] = 3

\* C30: after an output repair that leaves budget, the answer the repair
\* produced is the one validated next: the step that follows makes no
\* synthesizer call and leaves the answer as it is
C30_RepairedAnswerValidated ==
    [][(pc = "synthesizer" /\ prev = "repair" /\ repair_type = "output") =>
          /\ final_answer' = final_answer
          /\ calls'["synthesizer"] = calls["synthesizer"]]_vars

\* C31: an output repair leaves the query, its execution result and the
\* tables-used list as they were, and with them every field of the state
\* other than context, final_answer, explanation, citations, repair_count and
\* repair_type
C31_OutputRepairFrame ==
    [][(pc = "repair"
          /\ RepairKind(error, sql_results, final_answer, format_hint) = "output")
       => /\ sql_query' = sql_query
          /\ sql_results' = sql_results
          /\ db_tables_used' = db_tables_used
          /\ UNCHANGED << format_hint, query_type, retrieved_chunks, confidence,
                          error >>]_vars

\* an output repair has run on a request with an executed query and rows
C31_Witness ==
    /\ prev = "repair"
    /\ repair_type = "output"
    /\ pc # "raised"
    /\ db_tables_used # << >>
    /\ sql_results.row_count > 0

\* C32: after every query repair the error is None, the answer is None, the
\* citations are empty and the repair kind is "sql", while the retrieved
\* chunks, the tables-used list and the last execution result are unchanged
C32_QueryRepairFrame ==
    [][(pc = "repair"
          /\ RepairKind(error, sql_results, final_answer, format_hint) = "sql")
       => /\ error' = None
          /\ final_answer' = NoAnswer
          /\ citations' = << >>
          /\ repair_type' = "sql"
          /\ UNCHANGED << retrieved_chunks, db_tables_used, sql_results >>]_vars

\* a query repair has run after a synthesis that had left citations, on a
\* request that holds evidence
C32_Witness ==
    /\ prev = "repair"
    /\ repair_type = "sql"
    /\ calls["synthesizer"] >= 1
    /\ retrieved_chunks # << >>
    /\ citations = << >>

\* C33: every run of the repair step performs a query repair or an output
\* repair: it never increments the counter and does neither
C33_RepairDoesOneKind == repair_type # "end"

\* C34: the hint of a query repair matches the failure class: when the repair
\* follows an execution that succeeded with zero rows, the note it appends to
\* the context holds the empty-result hints with the date-shift reminder
C34_EmptyResultHint ==
    [][(pc = "repair" /\ prev = "executor"
          /\ sql_results.success /\ sql_results.row_count = 0)
       => /\ context' # << >>
          /\ context'[Len(context')].tag = "repair"
          /\ HintDateShift \in Range(context'[Len(context')].hints)]_vars

\* C35: a generated query that contains one of the keywords of the
\* hallucinations list, in the casing of the list, is rejected by the
\* pre-flight validation and is not executed
C35_KnownBadKeywordsRejected ==
    [][(pc = "executor" /\ sql_query.words \cap Hallucinations # {})
       => /\ error # None
          /\ calls'["executor"] = calls["executor"]]_vars

\* C36: the 0.2 of the confidence for execution is granted exactly when a
\* query was executed for the request and the last execution result is a
\* success: the confidence the synthesizer step writes is the formula with
\* that condition as its execution term
C36_ExecutionBonus ==
    prev = "synthesizer"
    => confidence = CalculateConfidence(
                        [ success |-> calls["executor"] > 0 /\ sql_results.success,
                          row_count |-> sql_results.row_count ],
                        retrieved_chunks, chunk_score, repair_count)

\* the planner has written the context
PlannerRan ==
    \E i \in 1..Len(trace) : trace[i] = "Planner: Extracted constraints"

\* C37 as stated: once the planner has written the evidence text (with the
\* constraint lines before it) into the context, every later context still
\* holds that text in full, the repairs only appending to it
C37_EvidenceKeptInFull ==
    PlannerRan =>
        LET written == PlannerContext(retrieved_chunks)
        IN /\ Len(context) >= Len(written)
           /\ SubSeq(context, 1, Len(written)) = written

\* C37 as amended: once the planner has written the evidence text into the
\* context, every later context starts with the first 500 characters of that
\* text, all of it when it is no longer; a query repair cuts what lies beyond
\* them before it appends, an output repair only appends
C37_EvidencePrefixKept ==
    PlannerRan =>
        LET written == PlannerContext(retrieved_chunks)
        IN Prefix(context, Min(SumLen(written), ContextCap))
             = Prefix(written, ContextCap)

\* a second query repair has run on a context the first one had cut
C37_Witness ==
    /\ PlannerRan
    /\ prev = "repair"
    /\ repair_count = 2
    /\ repair_type = "sql"
    /\ \E i \in 1..Len(context) : context[i].tag = "evidence" /\ context[i].cut

\* C38: every execution result stored in the state is well-formed, that of
\* execute_query and the failure record of a pre-flight rejection alike: a
\* success has no error and a row_count equal to the number of its rows, a
\* failure has no rows, row_count 0 and an error text that is not empty
C38_ResultWellFormed ==
    sql_results.set =>
        IF sql_results.success
        THEN /\ sql_results.error = None
             /\ sql_results.row_count = Len(sql_results.rows)
        ELSE /\ sql_results.rows = << >>
             /\ sql_results.row_count = 0
             /\ sql_results.error \notin { None, "" }

\* the failure record of a pre-flight rejection is in the state
C38_Witness ==
    /\ pc = "executor"
    /\ sql_results.set
    /\ ~sql_results.success
    /\ sql_results.error = PreflightKeyword

\* C39: a request that ends from the repair step after its second repair, a
\* query repair, returns a None answer and no citations, and the confidence
\* of its record is the one the last synthesizer step wrote, no other step
\* writing the field, or the initial 0.0 when no synthesizer step ran
C39_EndFromQueryRepair ==
    /\ []((pc = "returned" /\ prev = "repair" /\ repair_type = "sql"
             /\ repair_count = 2)
          => /\ result.final_answer = NoAnswer
             /\ result.citations = << >>
             /\ result.confidence = confidence
             /\ calls["synthesizer"] = 0 => result.confidence = FZero)
    /\ [][pc # "synthesizer" => confidence' = confidence]_vars

\* such a request returned with the confidence of a synthesis that ran before
\* its repairs
C39_Witness ==
    /\ pc = "returned"
    /\ prev = "repair"
    /\ repair_type = "sql"
    /\ repair_count = 2
    /\ calls["synthesizer"] >= 1
    /\ result.confidence # FZero

====
